---- MODULE Spec2Model ----
(***************************************************************************)
(* Model of git-slut.py: the pipeline of main() (fork, bundle, generate,   *)
(* apply, diff, commit, pull request, alias export) and the text functions *)
(* it is glued together with.                                              *)
(*                                                                         *)
(* Text is a sequence of tokens.  A token is a non-empty piece of text; the *)
(* characters the code looks at ("/", " ", "\n", "\r", "*") are always      *)
(* tokens of their own, so str.split, str.strip, str.splitlines,            *)
(* os.path.join and os.path.normpath act on token sequences exactly as     *)
(* they act on the character strings the sequences stand for.  "." and     *)
(* ".." as path components are the tokens "." and "..".                     *)
(***************************************************************************)
EXTENDS Integers, Sequences, FiniteSets, TLC

NL == "\n"
CR == "\r"
SL == "/"
SP == " "
\* a byte sequence that is not valid UTF-8
BIN == "\\xff"

\* bound on the number of files of the forked repository
MaxFiles == 2

----------------------------------------------------------------------------
(* Python str / list functions *)

Range(s) == {s[i] : i \in 1..Len(s)}

StartsWith(s, p) == Len(s) >= Len(p) /\ SubSeq(s, 1, Len(p)) = p

\* str.find(sep) + 1: the first position at which sep occurs, 0 when none
Find(s, sep) ==
    LET hits == {i \in 1..(Len(s) - Len(sep) + 1) : SubSeq(s, i, i + Len(sep) - 1) = sep}
    IN IF hits = {} THEN 0 ELSE CHOOSE i \in hits : \A j \in hits : i <= j

\* str.split(sep): non-overlapping occurrences, scanned left to right
RECURSIVE split(_, _)
split(s, sep) ==
    LET idx == Find(s, sep)
    IN IF idx = 0 THEN <<s>>
       ELSE <<SubSeq(s, 1, idx - 1)>> \o split(SubSeq(s, idx + Len(sep), Len(s)), sep)

\* sep.join(parts)
RECURSIVE join_str(_, _)
join_str(sep, parts) ==
    IF parts = <<>> THEN <<>>
    ELSE IF Len(parts) = 1 THEN parts[1]
    ELSE parts[1] \o sep \o join_str(sep, Tail(parts))

RECURSIVE lstrip(_, _)
lstrip(s, chars) ==
    IF s # <<>> /\ Head(s) \in chars THEN lstrip(Tail(s), chars) ELSE s

RECURSIVE rstrip(_, _)
rstrip(s, chars) ==
    IF s # <<>> /\ s[Len(s)] \in chars THEN rstrip(SubSeq(s, 1, Len(s) - 1), chars) ELSE s

\* str.strip(chars)
strip(s, chars) == rstrip(lstrip(s, chars), chars)

\* str.strip(): whitespace
strip_ws(s) == strip(s, {SP, NL, CR})

\* str.replace(old, new) for a one-token old
RECURSIVE replace(_, _, _)
replace(s, old, new) ==
    IF s = <<>> THEN <<>>
    ELSE (IF Head(s) = old THEN new ELSE <<Head(s)>>) \o replace(Tail(s), old, new)

\* str.splitlines(): a line ends at "\r\n", "\n" or "\r"; no empty last line
RECURSIVE splitlines(_)
splitlines(s) ==
    LET brk == {i \in 1..Len(s) : s[i] \in {NL, CR}}
    IN IF s = <<>> THEN <<>>
       ELSE IF brk = {} THEN <<s>>
       ELSE LET i == CHOOSE k \in brk : \A j \in brk : k <= j
                n == IF s[i] = CR /\ i < Len(s) /\ s[i + 1] = NL THEN 2 ELSE 1
            IN <<SubSeq(s, 1, i - 1)>> \o splitlines(SubSeq(s, i + n, Len(s)))

\* text-mode read (newline=None): "\r\n" and "\r" arrive as "\n"
RECURSIVE read_text(_)
read_text(b) ==
    IF b = <<>> THEN <<>>
    ELSE IF Head(b) = CR
         THEN <<NL>> \o read_text(IF Len(b) > 1 /\ b[2] = NL THEN Tail(Tail(b)) ELSE Tail(b))
         ELSE <<Head(b)>> \o read_text(Tail(b))

\* open(..., "r", encoding="utf-8").read() raises UnicodeDecodeError
Unreadable(b) == BIN \in Range(b)

----------------------------------------------------------------------------
(* posixpath *)

\* os.path.join(a, b)
path_join(a, b) ==
    IF StartsWith(b, <<SL>>) THEN b
    ELSE IF a = <<>> \/ a[Len(a)] = SL THEN a \o b
    ELSE a \o <<SL>> \o b

RECURSIVE norm_comps(_, _, _)
norm_comps(comps, new_comps, initial_slashes) ==
    IF comps = <<>> THEN new_comps
    ELSE LET comp == Head(comps)
             rest == Tail(comps)
         IN IF comp = <<>> \/ comp = <<".">>
            THEN norm_comps(rest, new_comps, initial_slashes)
            ELSE IF comp # <<"..">>
                    \/ (~initial_slashes /\ new_comps = <<>>)
                    \/ (new_comps # <<>> /\ new_comps[Len(new_comps)] = <<"..">>)
            THEN norm_comps(rest, Append(new_comps, comp), initial_slashes)
            ELSE IF new_comps # <<>>
            THEN norm_comps(rest, SubSeq(new_comps, 1, Len(new_comps) - 1), initial_slashes)
            ELSE norm_comps(rest, new_comps, initial_slashes)

\* os.path.normpath(path)
normpath(path) ==
    IF path = <<>> THEN <<".">>
    ELSE LET initial_slashes == StartsWith(path, <<SL>>)
             comps == norm_comps(split(path, <<SL>>), <<>>, initial_slashes)
             joined == (IF initial_slashes THEN <<SL>> ELSE <<>>) \o join_str(<<SL>>, comps)
         IN IF joined = <<>> THEN <<".">> ELSE joined

\* os.path.relpath(path, start) for a path below start
relpath(path, start) ==
    LET p == normpath(path)
        s == normpath(start)
    IN IF p = s THEN <<".">> ELSE SubSeq(p, Len(s) + 2, Len(p))

\* the components of a normalised path
Comps(p) == split(p, <<SL>>)

\* d is a proper ancestor directory of the path p
IsAncestor(d, p) ==
    LET dc == Comps(d)
        pc_ == Comps(p)
    IN Len(dc) < Len(pc_) /\ SubSeq(pc_, 1, Len(dc)) = dc

----------------------------------------------------------------------------
(* the file system: a function from normalised paths (relative to the     *)
(* working directory) to the bytes of the regular file at that path       *)

\* os.path.isdir(path)
isdir(fs, repo_dir, path) ==
    LET k == normpath(path)
    IN \/ k = <<".">>
       \/ Range(k) \subseteq {"..", SL}
       \/ k = normpath(repo_dir)
       \/ \E f \in DOMAIN fs : IsAncestor(k, f)

\* os.makedirs(dirname, exist_ok=True) or open(path, "w") raises: a regular
\* file stands where a directory is needed
write_raises(fs, path) ==
    \E f \in DOMAIN fs : IsAncestor(f, normpath(path))

\* with open(path, "w") as file: file.write(content)
write_file(fs, path, content) ==
    LET k == normpath(path)
    IN [f \in DOMAIN fs \cup {k} |-> IF f = k THEN content ELSE fs[f]]

\* git clone: the repository's files appear below repo_dir
clone(files, repo_dir) ==
    LET keys == {normpath(path_join(repo_dir, p)) : p \in DOMAIN files}
    IN [k \in keys |-> files[relpath(k, repo_dir)]]

\* os.path.dirname of a normalised path with at least two components
dirname(k) ==
    LET c == Comps(k) IN join_str(<<SL>>, SubSeq(c, 1, Len(c) - 1))

\* the directories os.walk(repo_dir) enters
WalkDirs(fs) ==
    UNION {{join_str(<<SL>>, SubSeq(Comps(f), 1, n)) : n \in 1..(Len(Comps(f)) - 1)} :
           f \in DOMAIN fs}

\* os.walk(repo_dir), top-down: the files of a directory come before the
\* files of its subdirectories, each subtree is walked in one piece, and
\* the order of the names within a directory is the file system's
IsWalkOrder(fs, order) ==
    \A d \in WalkDirs(fs) :
        LET below == {i \in 1..Len(order) : IsAncestor(d, order[i])}
            direct == {i \in below : dirname(order[i]) = d}
        IN /\ \A i \in below, j \in 1..Len(order) :
                  (\E h \in below : i < j /\ j < h) => j \in below
           /\ \A i \in direct, j \in below \ direct : i < j

WalkOrders(fs) ==
    LET n == Cardinality(DOMAIN fs)
    IN {o \in [1..n -> DOMAIN fs] :
           /\ \A i, j \in 1..n : i # j => o[i] # o[j]
           /\ IsWalkOrder(fs, o)}

----------------------------------------------------------------------------
(* the bundler *)

get_ignored_files ==
    << <<".DS_Store">>,
       <<"node_modules", SL>>,
       <<"__pycache__", SL>>,
       <<"*", ".pyc">>,
       <<"venv", SL>>,
       <<"env", SL>>,
       <<"*", ".egg-info", SL>>,
       <<"dist", SL>>,
       <<"build", SL>>,
       <<"*", ".app", SL>>,
       <<"*", ".ipa", SL>>,
       <<"*", ".apk", SL>>,
       <<"*", ".aab", SL>>,
       <<"*", ".class">>,
       <<"*", ".dex">>,
       <<".git", SL>>,
       <<".gitignore">>,
       <<"LICENSE">>,
       <<"README.md">> >>

gitignore_path(repo_dir) == path_join(repo_dir, <<".gitignore">>)

\* read_gitignore raises when .gitignore does not decode
read_gitignore_raises(fs, repo_dir) ==
    LET p == normpath(gitignore_path(repo_dir))
    IN p \in DOMAIN fs /\ Unreadable(fs[p])

read_gitignore(fs, repo_dir) ==
    LET p == normpath(gitignore_path(repo_dir))
    IN IF p \in DOMAIN fs THEN splitlines(read_text(fs[p])) ELSE <<>>

\* the test of line 109
is_ignored(repo_dir, file_path, ignored_files) ==
    \E i \in 1..Len(ignored_files) :
        normpath(path_join(repo_dir, ignored_files[i])) = normpath(file_path)

header(file_path) == <<SL, SL, SP>> \o file_path \o <<NL>>

\* the loop of lines 104-123 over the files in walk order
RECURSIVE bundle_loop(_, _, _, _, _)
bundle_loop(fs, repo_dir, ignored_files, order, acc) ==
    IF order = <<>> THEN acc
    ELSE LET k == Head(order)
             file_path == relpath(k, repo_dir)
             next ==
                 IF is_ignored(repo_dir, file_path, ignored_files)
                 THEN acc
                 ELSE IF Unreadable(fs[k])
                 THEN [acc EXCEPT !.errors = @ \cup {"Error reading file"}]
                 ELSE LET content == read_text(fs[k])
                      IN [acc EXCEPT
                            !.doc = @ \o header(file_path) \o content \o <<NL, NL>>,
                            !.entries = Append(@, file_path),
                            !.file_count = @ + 1]
         IN bundle_loop(fs, repo_dir, ignored_files, Tail(order), next)

bundle(fs, repo_dir, order) ==
    bundle_loop(fs, repo_dir, get_ignored_files \o read_gitignore(fs, repo_dir), order,
                [doc |-> <<>>, entries |-> <<>>, file_count |-> 0, errors |-> {}])

\* create_codebase_file without the return of line 130
codebase_never_empty(doc) == FALSE

\* os.path.getsize(codebase_file.name) == 0
codebase_is_empty(doc) == Len(doc) = 0

----------------------------------------------------------------------------
(* the apply step *)

Min(a, b) == IF a <= b THEN a ELSE b

\* the loop of lines 180-199 over zip(original_files, improved_files)
RECURSIVE apply_loop(_, _, _, _, _)
apply_loop(repo_dir, original_files, improved_files, n, acc) ==
    IF n > Min(Len(original_files), Len(improved_files)) \/ acc.raised THEN acc
    ELSE LET original_file == original_files[n]
             improved_file == improved_files[n]
             original_file_path == strip(split(original_file, <<NL>>)[1], {SL, SP})
             improved_file_content == join_str(<<NL>>, Tail(split(improved_file, <<NL>>)))
             file_path == path_join(repo_dir, original_file_path)
             next ==
                 IF isdir(acc.fs, repo_dir, file_path) THEN acc
                 ELSE IF write_raises(acc.fs, file_path)
                 THEN [acc EXCEPT !.raised = TRUE]
                 ELSE [acc EXCEPT
                         !.fs = write_file(acc.fs, file_path, improved_file_content),
                         !.written = @ \cup {normpath(file_path)}]
         IN apply_loop(repo_dir, original_files, improved_files, n + 1, next)

apply_improvements(fs, repo_dir, original_codebase_, improved_codebase_) ==
    apply_loop(repo_dir,
               split(original_codebase_, <<NL, NL>>),
               split(improved_codebase_, <<NL, NL>>),
               1,
               [fs |-> fs, written |-> {}, raised |-> FALSE])

----------------------------------------------------------------------------
(* the generation endpoint, difflib and git *)

\* response.status_code of the generation endpoint
Statuses == {200, 401, 500}

\* improve_code without the exit of line 170
improve_code_never_exits(status_code) == FALSE

\* improve_code leaves the process (exit(1)) on this status
improve_code_exits(status_code) == status_code # 200

\* what the endpoint may answer for the document it was sent: the document
\* itself, the document with its first chunk dropped, with a further entry,
\* with one word changed, and with "\r\n" line ends
Responses(doc) ==
    { doc,
      join_str(<<NL, NL>>, Tail(split(doc, <<NL, NL>>))),
      doc \o header(<<"new.txt">>) \o <<"x", NL, NL>>,
      replace(doc, "hello", <<"HELLO">>),
      replace(doc, NL, <<CR, NL>>) }

\* difflib.unified_diff(a, b, lineterm=''): nothing for equal line lists,
\* else the two file headers and a hunk (the hunk is the whole of a removed
\* and the whole of b added)
unified_diff(a, b) ==
    IF a = b THEN <<>>
    ELSE << <<"---", SP>>, <<"+++", SP>>, <<"@@">> >>
         \o [i \in 1..Len(a) |-> <<"-">> \o a[i]]
         \o [i \in 1..Len(b) |-> <<"+">> \o b[i]]

\* main without the return of line 310
no_improvements_ignored(diff_output_) == FALSE

\* line 308: not diff_output.strip()
no_improvements(diff_output_) == strip_ws(diff_output_) = <<>>

\* generate_commit_message
generate_commit_message(status_code, content) ==
    IF status_code = 200 THEN strip_ws(content) \o <<SP, "-git", SP, "slut">>
    ELSE <<"-git", SP, "slut">>

----------------------------------------------------------------------------
(* the state *)

VARIABLES
    pc,                 \* the statement of main() that runs next
    repo,               \* the files of the repository that is forked
    repo_dir,           \* main's repo_dir
    fs,                 \* the working directory's files
    codebase_file,      \* main's codebase_file: "unset", "None" or "tmp"
    tmp_exists,         \* the temporary bundle file is on disk
    tmp_doc,            \* its content
    entries,            \* the paths whose entries the bundler wrote, in order
    file_count,         \* create_codebase_file's file_count
    original_codebase,  \* main's original_codebase
    improved_codebase,  \* main's improved_codebase
    status,             \* status of the improve_code response, 0 before it
    diff_output,        \* main's diff_output
    invoked,            \* the external operations and steps performed so far
    committed,          \* git commit created a commit
    commit_message,     \* the message handed to git commit
    errors,             \* the messages given to logger.error
    written             \* the paths apply_improvements wrote

vars == <<pc, repo, repo_dir, fs, codebase_file, tmp_exists, tmp_doc, entries,
          file_count, original_codebase, improved_codebase, status, diff_output,
          invoked, committed, commit_message, errors, written>>

\* paths and contents the forked repository is drawn from
RelPaths ==
    { <<"a.txt">>,
      <<"b", SL, "c.txt">>,
      <<"LICENSE">>,
      <<".gitignore">>,
      <<"repo", SL, "LICENSE">> }

Contents ==
    { <<"hello">>,
      <<"world", NL>>,
      <<NL, "x">>,
      <<"..", SL, "a.txt", CR, NL, CR, NL, "LICENSE">>,
      <<BIN>> }

Repos ==
    UNION {[S -> Contents] : S \in {T \in SUBSET RelPaths : Cardinality(T) <= MaxFiles}}

Init ==
    /\ pc = "check_github_cli"
    /\ repo \in Repos
    /\ repo_dir = <<>>
    /\ fs = <<>>
    /\ codebase_file = "unset"
    /\ tmp_exists = FALSE
    /\ tmp_doc = <<>>
    /\ entries = <<>>
    /\ file_count = 0
    /\ original_codebase = <<>>
    /\ improved_codebase = <<>>
    /\ status = 0
    /\ diff_output = <<>>
    /\ invoked = {}
    /\ committed = FALSE
    /\ commit_message = <<>>
    /\ errors = {}
    /\ written = {}

----------------------------------------------------------------------------
(* the steps of main() *)

\* line 285: check_github_cli(): gh runs, is missing (exit(1)), or fails
\* (CalledProcessError, which nothing catches)
CheckGithubCli ==
    /\ pc = "check_github_cli"
    /\ \E gh \in {"ok", "FileNotFoundError", "CalledProcessError"} :
          pc' = CASE gh = "ok" -> "fork_repo"
                  [] gh = "FileNotFoundError" -> "exited"
                  [] OTHER -> "raised"
    /\ UNCHANGED <<repo, repo_dir, fs, codebase_file, tmp_exists, tmp_doc, entries,
                   file_count, original_codebase, improved_codebase, status,
                   diff_output, invoked, committed, commit_message, errors, written>>

\* line 286: repo_dir = fork_repo(args.repo_url)
\* gh repo list fails (exit(1)), names an existing fork, or names none; an
\* existing fork is cloned (git clone may raise); otherwise gh repo fork
\* clones, prints no "Cloning into" line (exit(1)), or fails (exit(1))
ForkRepo ==
    /\ pc = "fork_repo"
    /\ \E existing_fork \in {<<"CalledProcessError">>, <<>>, <<"me", SL, "repo">>},
          outcome \in {"cloned", "no match", "CalledProcessError"} :
          IF existing_fork = <<"CalledProcessError">>
          THEN /\ pc' = "exited"
               /\ UNCHANGED <<repo_dir, fs>>
          ELSE IF existing_fork # <<>>
          THEN IF outcome = "CalledProcessError"
               THEN /\ pc' = "raised"
                    /\ UNCHANGED <<repo_dir, fs>>
               ELSE /\ repo_dir' = LET parts == split(existing_fork, <<SL>>)
                                   IN parts[Len(parts)]
                    /\ fs' = clone(repo, repo_dir')
                    /\ pc' = "create_codebase_file"
          ELSE IF outcome = "cloned"
               THEN /\ repo_dir' = <<"repo">>
                    /\ fs' = clone(repo, repo_dir')
                    /\ pc' = "create_codebase_file"
               ELSE /\ pc' = "exited"
                    /\ UNCHANGED <<repo_dir, fs>>
    /\ invoked' = invoked \cup {"fork_repo"}
    /\ UNCHANGED <<repo, codebase_file, tmp_exists, tmp_doc, entries, file_count,
                   original_codebase, improved_codebase, status, diff_output,
                   committed, commit_message, errors, written>>

\* line 288: codebase_file = create_codebase_file(repo_dir)
CreateCodebaseFile ==
    /\ pc = "create_codebase_file"
    /\ IF read_gitignore_raises(fs, repo_dir)
       THEN /\ pc' = "raised"
            /\ UNCHANGED <<codebase_file, tmp_exists, tmp_doc, entries, file_count, errors>>
       ELSE \E order \in WalkOrders(fs) :
               LET b == bundle(fs, repo_dir, order)
               IN /\ entries' = b.entries
                  /\ file_count' = b.file_count
                  /\ IF codebase_is_empty(b.doc)
                     THEN /\ errors' = errors \cup b.errors \cup {"Codebase file is empty."}
                          /\ tmp_exists' = FALSE
                          /\ tmp_doc' = <<>>
                          /\ codebase_file' = "None"
                     ELSE /\ errors' = errors \cup b.errors
                          /\ tmp_exists' = TRUE
                          /\ tmp_doc' = b.doc
                          /\ codebase_file' = "tmp"
                  /\ pc' = "check_codebase_file"
    /\ invoked' = invoked \cup {"create_codebase_file"}
    /\ UNCHANGED <<repo, repo_dir, fs, original_codebase, improved_codebase, status,
                   diff_output, committed, commit_message, written>>

\* lines 290-295: return on None, else read the bundle back
CheckCodebaseFile ==
    /\ pc = "check_codebase_file"
    /\ IF codebase_file = "None"
       THEN /\ errors' = errors \cup {"Failed to create codebase file."}
            /\ pc' = "returned"
            /\ UNCHANGED original_codebase
       ELSE /\ original_codebase' = read_text(tmp_doc)
            /\ pc' = "improve_code"
            /\ UNCHANGED errors
    /\ UNCHANGED <<repo, repo_dir, fs, codebase_file, tmp_exists, tmp_doc, entries,
                   file_count, improved_codebase, status, diff_output, invoked,
                   committed, commit_message, written>>

\* line 297: improved_codebase = improve_code(codebase_file, args.llm)
ImproveCode ==
    /\ pc = "improve_code"
    /\ \E status_code \in Statuses, content \in Responses(read_text(tmp_doc)) :
          /\ status' = status_code
          /\ IF improve_code_exits(status_code)
             THEN /\ pc' = "exited"
                  /\ UNCHANGED improved_codebase
             ELSE /\ pc' = "remove_codebase_file"
                  /\ improved_codebase' = content
    /\ invoked' = invoked \cup {"improve_code"}
    /\ UNCHANGED <<repo, repo_dir, fs, codebase_file, tmp_exists, tmp_doc, entries,
                   file_count, original_codebase, diff_output, committed,
                   commit_message, errors, written>>

\* line 298: os.remove(codebase_file)
RemoveCodebaseFile ==
    /\ pc = "remove_codebase_file"
    /\ tmp_exists' = FALSE
    /\ tmp_doc' = <<>>
    /\ pc' = "apply_improvements"
    /\ UNCHANGED <<repo, repo_dir, fs, codebase_file, entries, file_count,
                   original_codebase, improved_codebase, status, diff_output, invoked,
                   committed, commit_message, errors, written>>

\* line 303: apply_improvements(repo_dir, original_codebase, improved_codebase)
ApplyImprovements ==
    /\ pc = "apply_improvements"
    /\ LET r == apply_improvements(fs, repo_dir, original_codebase, improved_codebase)
       IN /\ fs' = r.fs
          /\ written' = r.written
          /\ pc' = IF r.raised THEN "raised" ELSE "unified_diff"
    /\ invoked' = invoked \cup {"apply_improvements"}
    /\ UNCHANGED <<repo, repo_dir, codebase_file, tmp_exists, tmp_doc, entries,
                   file_count, original_codebase, improved_codebase, status,
                   diff_output, committed, commit_message, errors>>

\* lines 305-310: the diff, and the return when it is empty
UnifiedDiff ==
    /\ pc = "unified_diff"
    /\ diff_output' = join_str(<<NL>>, unified_diff(splitlines(original_codebase),
                                                   splitlines(improved_codebase)))
    /\ IF no_improvements(diff_output')
       THEN /\ errors' = errors \cup {"No improvements made. Aborting commit."}
            /\ pc' = "returned"
       ELSE /\ pc' = "commit_changes"
            /\ UNCHANGED errors
    /\ invoked' = invoked \cup {"unified_diff"}
    /\ UNCHANGED <<repo, repo_dir, fs, codebase_file, tmp_exists, tmp_doc, entries,
                   file_count, original_codebase, improved_codebase, status,
                   committed, commit_message, written>>

\* line 312: commit_changes(repo_dir, diff_output, args.llm)
CommitChanges ==
    /\ pc = "commit_changes"
    /\ IF strip_ws(diff_output) = <<>>
       THEN /\ invoked' = invoked \cup {"commit_changes"}
            /\ UNCHANGED <<committed, commit_message, errors>>
       ELSE \E status_code \in {200, 500}, add_returncode \in {0, 1},
               staged_returncode \in {0, 1}, commit_raises \in BOOLEAN :
               /\ commit_message' =
                      generate_commit_message(status_code, <<"Improve", SP, "code", NL>>)
               /\ IF add_returncode # 0
                  THEN /\ errors' = errors \cup {"Error occurred during git add -p"}
                       /\ invoked' = invoked \cup {"commit_changes", "git add"}
                       /\ UNCHANGED committed
                  ELSE IF staged_returncode = 0
                  THEN /\ invoked' = invoked \cup {"commit_changes", "git add"}
                       /\ UNCHANGED <<committed, errors>>
                  ELSE IF commit_raises
                  THEN /\ errors' = errors \cup {"Error occurred during commit"}
                       /\ invoked' = invoked \cup {"commit_changes", "git add", "git commit"}
                       /\ UNCHANGED committed
                  ELSE /\ committed' = TRUE
                       /\ invoked' = invoked \cup {"commit_changes", "git add", "git commit"}
                       /\ UNCHANGED errors
    /\ pc' = "create_pull_request"
    /\ UNCHANGED <<repo, repo_dir, fs, codebase_file, tmp_exists, tmp_doc, entries,
                   file_count, original_codebase, improved_codebase, status,
                   diff_output, written>>

\* line 313: create_pull_request(repo_dir, args.repo_url)
CreatePullRequest ==
    /\ pc = "create_pull_request"
    /\ \E gh_raises \in BOOLEAN :
          /\ invoked' = invoked \cup
                 (IF gh_raises THEN {"gh pr create"} ELSE {"gh pr create", "pull request"})
          /\ pc' = IF gh_raises THEN "raised" ELSE "export_git_sauce_command"
    /\ UNCHANGED <<repo, repo_dir, fs, codebase_file, tmp_exists, tmp_doc, entries,
                   file_count, original_codebase, improved_codebase, status,
                   diff_output, committed, commit_message, errors, written>>

\* line 314: export_git_sauce_command()
ExportGitSauceCommand ==
    /\ pc = "export_git_sauce_command"
    /\ invoked' = invoked \cup {"export_git_sauce_command"}
    /\ pc' = "returned"
    /\ UNCHANGED <<repo, repo_dir, fs, codebase_file, tmp_exists, tmp_doc, entries,
                   file_count, original_codebase, improved_codebase, status,
                   diff_output, committed, commit_message, errors, written>>

Next ==
    \/ CheckGithubCli
    \/ ForkRepo
    \/ CreateCodebaseFile
    \/ CheckCodebaseFile
    \/ ImproveCode
    \/ RemoveCodebaseFile
    \/ ApplyImprovements
    \/ UnifiedDiff
    \/ CommitChanges
    \/ CreatePullRequest
    \/ ExportGitSauceCommand

Spec == Init /\ [][Next]_vars

\* main() has ended: by return, by exit(1), or by an uncaught exception
Ended == pc \in {"returned", "exited", "raised"}

TypeOK ==
    /\ pc \in {"check_github_cli", "fork_repo", "create_codebase_file",
               "check_codebase_file", "improve_code", "remove_codebase_file",
               "apply_improvements", "unified_diff", "commit_changes",
               "create_pull_request", "export_git_sauce_command",
               "returned", "exited", "raised"}
    /\ codebase_file \in {"unset", "None", "tmp"}
    /\ status \in Statuses \cup {0}
    /\ tmp_exists \in BOOLEAN
    /\ committed \in BOOLEAN

----------------------------------------------------------------------------
(* the properties *)

\* the working directory as git clone left it
Cloned == clone(repo, repo_dir)

\* the path below repo_dir of a bundle entry
EntryKey(e) == normpath(path_join(repo_dir, e))

Chunks(doc) == split(doc, <<NL, NL>>)

\* C1: bundling a tree and applying a replacement document identical to the
\* bundle leaves every bundled file with its original content and writes no
\* file that was not in the tree.
C1_RoundTrip ==
    ("apply_improvements" \in invoked /\ improved_codebase = original_codebase)
        => /\ \A i \in 1..Len(entries) :
                  /\ EntryKey(entries[i]) \in DOMAIN fs
                  /\ fs[EntryKey(entries[i])] = Cloned[EntryKey(entries[i])]
           /\ written \subseteq DOMAIN Cloned

\* a relative path matches a pattern of the ignore list: a name matches in
\* any directory, "name/" matches the files below a directory of that name,
\* "*suffix" matches names that end with the suffix
MatchesPattern(file_path, pattern) ==
    LET body == rstrip(pattern, {SL})
        comps == Comps(file_path)
        hit(c) == IF Head(body) = "*"
                  THEN c # <<>> /\ c[Len(c)] = body[Len(body)]
                  ELSE c = body
    IN IF pattern[Len(pattern)] = SL
       THEN \E n \in 1..(Len(comps) - 1) : hit(comps[n])
       ELSE hit(comps[Len(comps)])

MatchesBuiltin(file_path) ==
    \E i \in 1..Len(get_ignored_files) : MatchesPattern(file_path, get_ignored_files[i])

\* C2: no file whose relative path matches a built-in ignored pattern has an
\* entry in the bundle.
C2_IgnoreSet ==
    \A i \in 1..Len(entries) : ~MatchesBuiltin(entries[i])

\* C3: when the replacement document has another number of chunks than the
\* original bundle, the mismatch is flagged or the apply step writes nothing.
C3_MismatchHandling ==
    ("apply_improvements" \in invoked
        /\ Len(Chunks(improved_codebase)) # Len(Chunks(original_codebase)))
        => \/ "Mismatch in the number of original and improved files." \in errors
           \/ written = {}

\* C4: when no bundled file's content contains the separator "\n\n", the
\* bundle splits on the separator into as many chunks as files were bundled.
C4_SeparatorIntegrity ==
    (codebase_file = "tmp" /\ pc # "check_codebase_file"
        /\ \A i \in 1..Len(entries) :
               Find(read_text(Cloned[EntryKey(entries[i])]), <<NL, NL>>) = 0)
        => Len(Chunks(original_codebase)) = file_count

\* the steps that rewrite files, commit or open a pull request
Downstream ==
    {"apply_improvements", "commit_changes", "git add", "git commit",
     "gh pr create", "pull request"}

\* C5: when the generation endpoint answers improve_code with a status other
\* than 200, the run has ended by exit with no file rewritten, no commit and
\* no pull request attempted.
C5_NonSuccessAborts ==
    (status # 0 /\ status # 200)
        => /\ pc = "exited"
           /\ fs = Cloned
           /\ written = {}
           /\ ~committed
           /\ invoked \cap Downstream = {}

C5_Witness ==
    status = 500 /\ pc = "exited" /\ "improve_code" \in invoked

\* C6: when main has ended, the temporary bundle file is not on disk.
C6_TempFileRemoved ==
    Ended => ~tmp_exists

\* C7: when the unified diff of the original bundle and the replacement
\* document is empty, main returns with no commit and no pull request.
C7_EmptyDiffNoCommit ==
    ("unified_diff" \in invoked
        /\ unified_diff(splitlines(original_codebase), splitlines(improved_codebase)) = <<>>)
        => /\ pc = "returned"
           /\ ~committed
           /\ invoked \cap {"commit_changes", "git add", "git commit",
                            "gh pr create", "pull request"} = {}

C7_Witness ==
    /\ "unified_diff" \in invoked
    /\ diff_output = <<>>
    /\ improved_codebase # original_codebase
    /\ pc = "returned"

\* a file of the cloned tree gets an entry: it passes the ignore test of
\* line 109 and decodes as text
Qualifies(k) ==
    /\ ~is_ignored(repo_dir, relpath(k, repo_dir),
                   get_ignored_files \o read_gitignore(Cloned, repo_dir))
    /\ ~Unreadable(Cloned[k])

C9_NoImplicitAlias ==
    "export_git_sauce_command" \notin invoked

\* C10: create_pull_request is invoked only after commit_changes created a
\* commit.
C10_PullRequestAfterCommit ==
    "gh pr create" \in invoked => committed

====
